---- MODULE Spec2Model ----
(***************************************************************************)
(* Gutenprint parameter estimation from Argyll .cal files.                 *)
(*                                                                         *)
(*   calculate_gutenprint_cal.py : parse_cal_file, analyze_light_ink,      *)
(*                                 analyze_density, process                *)
(*                                 (multiplicative accumulator)            *)
(*   cal2gutenprint_v0.py        : parse_cal_blocks, the estimators,       *)
(*                                 smooth, main (smoothing accumulator)    *)
(*                                                                         *)
(* Numbers.  A float is an exact rational <<n, d>> in lowest terms with    *)
(* d > 0; NaN is <<0, 0>>.  A number read from a file token is an integer  *)
(* count of ticks, one tick being 1/Unit, so that the thresholds of the    *)
(* code (0.05, 0.6, 0.9, 0.95) are whole numbers of ticks.                 *)
(***************************************************************************)
EXTENDS Integers, Sequences, FiniteSets, TLC

VARIABLES
    prog,       \* the program (or function) that runs
    pc,         \* position of the running program
    nfiles,     \* len(cal_files)
    idx,        \* number of files of cal_files already taken by the loop
    params,     \* the Parameter Set (dict of fifteen floats)
    prev,       \* params as they were before the last processed file
    last,       \* the last file taken by the loop (as read from disk)
    hist,       \* per processed file, the gamma estimates fitted from it
    output,     \* what was echoed: "none", "usage" or "table"
    reported,   \* the Parameter Set printed in the table
    alpha,      \* --alpha of cal2gutenprint_v0.py
    lines,      \* parser runs: the lines read so far, each with its context
    pst,        \* parser runs: the loop state of the parser
    dinp,       \* analyze_density run: the argument inp
    dde,        \* analyze_density run: the argument de_curve
    dres        \* analyze_density run: the value returned

vars == <<prog, pc, nfiles, idx, params, prev, last, hist, output, reported, alpha,
          lines, pst, dinp, dde, dres>>

----------------------------------------------------------------------------
(* Bounds of the model *)

MaxFiles == 3

MaxLines == 4

MaxSamples == 3

----------------------------------------------------------------------------
(* Exact arithmetic standing for the floats of the programs *)

Unit == 6 * 10

Abs(x) == IF x < 0 THEN -x ELSE x

RECURSIVE GCD(_, _)
GCD(a, b) == IF b = 0 THEN a ELSE GCD(b, a % b)

NaN == <<0, 0>>

IsNaN(r) == r[2] = 0

Rat(n, d) ==
    IF d = 0 THEN NaN
    ELSE LET g == GCD(Abs(n), Abs(d))
             s == IF d < 0 THEN -1 ELSE 1
         IN  <<(s * n) \div g, (s * d) \div g>>

RInt(n) == <<n, 1>>

RAdd(a, b) == IF IsNaN(a) \/ IsNaN(b) THEN NaN
              ELSE LET g == GCD(a[2], b[2])
                   IN  Rat(a[1] * (b[2] \div g) + b[1] * (a[2] \div g),
                           a[2] * (b[2] \div g))

RMul(a, b) == IF IsNaN(a) \/ IsNaN(b) THEN NaN
              ELSE Rat(a[1] * b[1], a[2] * b[2])

RSub(a, b) == RAdd(a, RMul(RInt(-1), b))

\* a < b as IEEE floats compare: FALSE whenever a NaN is involved
RLess(a, b) == ~IsNaN(a) /\ ~IsNaN(b) /\ a[1] * b[2] < b[1] * a[2]

RLeq(a, b) == ~IsNaN(a) /\ ~IsNaN(b) /\ a[1] * b[2] <= b[1] * a[2]

\* Python's builtin min(a, b) and max(a, b): the first argument is kept
\* unless the second compares strictly smaller (larger)
PyMin(a, b) == IF RLess(b, a) THEN b ELSE a

PyMax(a, b) == IF RLess(a, b) THEN b ELSE a

RECURSIVE SumSeq(_)
SumSeq(s) == IF s = << >> THEN 0 ELSE Head(s) + SumSeq(Tail(s))

\* s[mask] of numpy: the elements of s at the positions where mask is TRUE
RECURSIVE SelectFrom(_, _, _)
SelectFrom(s, mask, i) ==
    IF i > Len(s) THEN << >>
    ELSE IF mask[i] THEN <<s[i]>> \o SelectFrom(s, mask, i + 1)
         ELSE SelectFrom(s, mask, i + 1)

Select(s, mask) == SelectFrom(s, mask, 1)

\* column i (0-based, as in dc[:, i]) of a table of rows
Column(table, i) == [r \in 1..Len(table) |-> table[r][i + 1]]

----------------------------------------------------------------------------
(* The text of a .cal file *)

\* A stripped line is its text when it is one of the format's keyword lines
\* (kw), or else its whitespace-separated tokens (toks).  A token records
\* whether float() accepts it (num), the value float() gives in ticks (v) and
\* whether its first character is a digit (d0): "0.5" is num with d0,
\* "-0.5" and ".5" are num without d0, "5x" is not num with d0, "abc" neither.
KwDescCurves == "DESCRIPTOR \"Argyll Device Calibration Curves\""

KwDescDE == "DESCRIPTOR \"Argyll Output Calibration Expected DE Response\""

Kw(text) == [kw |-> text, toks |-> << >>]

Num(v) == [num |-> TRUE, d0 |-> v >= 0, v |-> v]

Row(vals) == [kw |-> "", toks |-> [i \in 1..Len(vals) |-> Num(vals[i])]]

Rows(table) == [r \in 1..Len(table) |-> Row(table[r])]

\* str.startswith on the keyword lines: the prefixes the code tests for
Prefixes(text) ==
    CASE text = "BEGIN_DATA"        -> {"BEGIN_DATA"}
      [] text = "BEGIN_DATA_FORMAT" -> {"BEGIN_DATA", "BEGIN_DATA_FORMAT"}
      [] text = "END_DATA"          -> {"END_DATA"}
      [] text = "END_DATA_FORMAT"   -> {"END_DATA", "END_DATA_FORMAT"}
      [] text = "CAL"               -> {"CAL"}
      [] text = KwDescCurves        -> {"DESCRIPTOR"}
      [] text = KwDescDE            -> {"DESCRIPTOR"}
      [] text = "# comment"         -> {"#"}
      [] OTHER                      -> {}

StartsWith(line, prefix) == prefix \in Prefixes(line.kw)

\* line[0].isdigit() on a non-empty line
FirstCharIsDigit(line) == line.kw = "" /\ line.toks # << >> /\ line.toks[1].d0

NonEmpty(line) == line.kw # "" \/ line.toks # << >>

\* float(x) succeeds on every x of line.split() (else ValueError is raised)
AllNumeric(line) ==
    line.kw = "" /\ \A i \in 1..Len(line.toks) : line.toks[i].num

\* [float(x) for x in line.split()]
Floats(line) == [i \in 1..Len(line.toks) |-> line.toks[i].v]

----------------------------------------------------------------------------
(* calculate_gutenprint_cal.py *)

Colors == {"Cyan", "Magenta", "Yellow", "Black"}

CHAN_IDX == [Cyan |-> 1, Magenta |-> 2, Yellow |-> 3, Black |-> 4]

GammaKey(color) ==
    CASE color = "Cyan" -> "CyanGamma" [] color = "Magenta" -> "MagentaGamma"
      [] color = "Yellow" -> "YellowGamma" [] color = "Black" -> "BlackGamma"

DensityKey(color) ==
    CASE color = "Cyan" -> "CyanDensity" [] color = "Magenta" -> "MagentaDensity"
      [] color = "Yellow" -> "YellowDensity" [] color = "Black" -> "BlackDensity"

\* the transition key, where the code writes the light ink value
LightValueKey_Trans(color) ==
    CASE color = "Cyan" -> "LightCyanTrans" [] color = "Magenta" -> "LightMagentaTrans"

LightValueKey(color) ==
    CASE color = "Cyan" -> "LightCyanValue" [] color = "Magenta" -> "LightMagentaValue"

LightTransKey(color) ==
    CASE color = "Cyan" -> "LightCyanTrans" [] color = "Magenta" -> "LightMagentaTrans"

DEFAULT_PARAMS ==
    [CyanGamma |-> RInt(1), CyanDensity |-> RInt(1),
     LightCyanValue |-> Rat(35, 100), LightCyanScale |-> RInt(1),
     LightCyanTrans |-> Rat(6, 10),
     MagentaGamma |-> RInt(1), MagentaDensity |-> RInt(1),
     LightMagentaValue |-> Rat(35, 100), LightMagentaScale |-> RInt(1),
     LightMagentaTrans |-> Rat(6, 10),
     YellowGamma |-> RInt(1), YellowDensity |-> RInt(1),
     BlackGamma |-> RInt(1), BlackDensity |-> RInt(1),
     CompositeGamma |-> RInt(1)]

\* The state of the "Robust Block Parser" loop before the first line
ParseCalInit ==
    [current_block |-> "None", data_curves |-> << >>, data_de |-> << >>,
     raised |-> FALSE]

\* Whether the loop body appends the line to a table (or raises doing so)
TakesRow(st, line) ==
    /\ ~(line.kw = KwDescCurves) /\ ~(line.kw = KwDescDE)
    /\ ~StartsWith(line, "BEGIN_DATA") /\ ~StartsWith(line, "END_DATA_FORMAT")
    /\ ~StartsWith(line, "END_DATA") /\ ~StartsWith(line, "CAL")
    /\ st.current_block # "None" /\ NonEmpty(line) /\ FirstCharIsDigit(line)

\* One iteration of the loop of lines 72-96
ParseCalLine(st, line) ==
    IF st.raised THEN st
    ELSE IF line.kw = KwDescCurves THEN [st EXCEPT !.current_block = "CURVES"]
    ELSE IF line.kw = KwDescDE THEN [st EXCEPT !.current_block = "DE"]
    ELSE IF StartsWith(line, "BEGIN_DATA") THEN st
    ELSE IF StartsWith(line, "END_DATA_FORMAT") THEN st
    ELSE IF StartsWith(line, "END_DATA") THEN [st EXCEPT !.current_block = "None"]
    ELSE IF StartsWith(line, "CAL") THEN st
    ELSE IF ~TakesRow(st, line) THEN st
    ELSE IF ~AllNumeric(line) THEN [st EXCEPT !.raised = TRUE]
    ELSE IF st.current_block = "CURVES"
         THEN [st EXCEPT !.data_curves = Append(@, Floats(line))]
         ELSE [st EXCEPT !.data_de = Append(@, Floats(line))]

RECURSIVE ParseCalLines(_, _)
ParseCalLines(st, ls) ==
    IF ls = << >> THEN st ELSE ParseCalLines(ParseCalLine(st, Head(ls)), Tail(ls))

\* np.array(rows) followed by the column reads [:, 0] .. [:, 4] succeeds
\* only on a rectangular table of at least five columns
FiveColumns(table) ==
    \A r \in 1..Len(table) : Len(table[r]) = Len(table[1]) /\ Len(table[r]) >= 5

\* "Structure Data": {channel: (input_array, channel_array)}, empty for an
\* empty table
Structure(table) ==
    [c \in (IF table = << >> THEN {} ELSE Colors) |->
        <<Column(table, 0), Column(table, CHAN_IDX[c])>>]

\* parse_cal_file: the two dictionaries, or raised
parse_cal_file(text) ==
    LET st == ParseCalLines(ParseCalInit, text)
    IN  IF st.raised \/ ~FiveColumns(st.data_curves) \/ ~FiveColumns(st.data_de)
        THEN [raised |-> TRUE, curves |-> << >>, de_resp |-> << >>]
        ELSE [raised |-> FALSE, curves |-> Structure(st.data_curves),
              de_resp |-> Structure(st.data_de)]

\* fit_gamma: the exponent scipy's curve_fit settles on for the channel's
\* curve, or 1.0 when it raises.  The optimiser is outside the model: its
\* value for each channel of a file is given with the file.
fit_gamma(f, color) == f.fit[color]

\* np.mean of a sequence of tick values: NaN for an empty one
MeanTicks(s) == Rat(SumSeq(s), Len(s) * Unit)

HighlightLimit == 36

Sensitivity == Rat(-8, 10)

ClampLow == Rat(1, 10)

ClampHigh == Rat(9, 10)

\* the corrected value without the clamp of line 162
analyze_light_ink_NoClamp(inp, curve, de_curve, current_val, current_trans) ==
    LET mask == [i \in 1..Len(inp) |-> inp[i] <= HighlightLimit]
        x_part == Select(inp, mask)
        y_part == Select(curve, mask)
        diff == [i \in 1..Len(x_part) |-> y_part[i] - x_part[i]]
    IN  RAdd(current_val, RMul(MeanTicks(diff), Sensitivity))

analyze_light_ink(inp, curve, de_curve, current_val, current_trans) ==
    LET mask == [i \in 1..Len(inp) |-> inp[i] <= HighlightLimit]
        x_part == Select(inp, mask)
        y_part == Select(curve, mask)
        diff == [i \in 1..Len(x_part) |-> y_part[i] - x_part[i]]
        avg_diff == MeanTicks(diff)
        val_correction == RMul(avg_diff, Sensitivity)
        new_val == RAdd(current_val, val_correction)
    IN  PyMax(ClampLow, PyMin(ClampHigh, new_val))

SaturationLimit == 54

SlopeThreshold == 10

DensityReduction == Rat(95, 100)

\* slope < 10.0 for slope = dy / dx in numpy floats: dy / 0 is +inf, -inf or
\* nan, and only -inf compares below the threshold
SlopeBelow(dy, dx) ==
    IF dx > 0 THEN dy < SlopeThreshold * dx
    ELSE IF dx < 0 THEN dy > SlopeThreshold * dx
    ELSE dy < 0

analyze_density(inp, de_curve) ==
    LET mask == [i \in 1..Len(inp) |-> inp[i] > SaturationLimit]
        de_top == Select(de_curve, mask)
        inp_top == Select(inp, mask)
    IN  IF Len(de_top) < 2 THEN RInt(1)
        ELSE IF SlopeBelow(de_curve[Len(de_curve)] - de_top[1],
                           inp[Len(inp)] - inp_top[1])
             THEN DensityReduction
             ELSE RInt(1)

\* params[key] = factor, where the code has params[key] *= factor
MulUpdate_Replace(old, factor) == factor

\* params[key] *= factor
MulUpdate(old, factor) == RMul(old, factor)

\* the cyan gamma alone, where the code averages the three
CompositeEstimate_CyanOnly(g_c, g_m, g_y) == g_c

\* (g_c + g_m + g_y) / 3.0
CompositeEstimate(g_c, g_m, g_y) == RMul(RAdd(RAdd(g_c, g_m), g_y), Rat(1, 3))

\* Step 1 of the loop body: the gammas of the channels found in curves
UpdateGammas(p, f, curves) ==
    [k \in DOMAIN p |->
        IF \E c \in DOMAIN curves : k = GammaKey(c)
        THEN LET c == CHOOSE c \in DOMAIN curves : k = GammaKey(c)
             IN  MulUpdate(p[k], fit_gamma(f, c))
        ELSE p[k]]

\* Step 3: the light ink values of Cyan and Magenta
UpdateLightInk(p, curves, de_resp) ==
    [k \in DOMAIN p |->
        IF \E c \in {"Cyan", "Magenta"} :
              k = LightValueKey(c) /\ c \in DOMAIN curves /\ c \in DOMAIN de_resp
        THEN LET c == CHOOSE c \in {"Cyan", "Magenta"} : k = LightValueKey(c)
             IN  analyze_light_ink(curves[c][1], curves[c][2], de_resp[c][2],
                                   p[LightValueKey(c)], p[LightTransKey(c)])
        ELSE p[k]]

\* Step 4: the densities of the channels found in de_resp
UpdateDensity(p, de_resp) ==
    [k \in DOMAIN p |->
        IF \E c \in DOMAIN de_resp : k = DensityKey(c)
        THEN LET c == CHOOSE c \in DOMAIN de_resp : k = DensityKey(c)
             IN  MulUpdate(p[k], analyze_density(de_resp[c][1], de_resp[c][2]))
        ELSE p[k]]

\* The body of the loop over cal_files for one file f, from params p:
\* the params it leaves, and whether an exception left the loop
ProcessBody(p, f) ==
    LET parsed == parse_cal_file(f.text)
        curves == parsed.curves
        de_resp == parsed.de_resp
        p1 == UpdateGammas(p, f, curves)
    IN  IF parsed.raised THEN [raised |-> TRUE, params |-> p]
        ELSE IF "Cyan" \notin DOMAIN curves          \* curves['Cyan']: KeyError
        THEN [raised |-> TRUE, params |-> p1]
        ELSE LET avg_g == CompositeEstimate(fit_gamma(f, "Cyan"),
                                            fit_gamma(f, "Magenta"),
                                            fit_gamma(f, "Yellow"))
                 p2 == [p1 EXCEPT !.CompositeGamma = MulUpdate(@, avg_g)]
                 p3 == UpdateLightInk(p2, curves, de_resp)
                 p4 == UpdateDensity(p3, de_resp)
             IN  [raised |-> FALSE, params |-> p4]

----------------------------------------------------------------------------
(* The input files the runs draw from *)

\* A file on disk: its lines, and what curve_fit gives for each channel
MkFile(ctable, detable, fit) ==
    [text |-> <<Kw("CAL")>>
              \o (IF ctable = << >> THEN << >>
                  ELSE <<Kw(KwDescCurves), Kw("BEGIN_DATA_FORMAT"),
                         Kw("END_DATA_FORMAT"), Kw("BEGIN_DATA")>>
                       \o Rows(ctable) \o <<Kw("END_DATA")>>)
              \o (IF detable = << >> THEN << >>
                  ELSE <<Kw(KwDescDE), Kw("BEGIN_DATA")>>
                       \o Rows(detable) \o <<Kw("END_DATA")>>),
     fit |-> fit]

\* Calibration curves, rows of <<input, C, M, Y, K>> in ticks
CurveIdentity == <<<<0, 0, 0, 0, 0>>, <<30, 30, 30, 30, 30>>, <<60, 60, 60, 60, 60>>>>

CurveCyanUp == <<<<0, 0, 0, 0, 0>>, <<30, 60, 0, 30, 30>>, <<60, 60, 60, 60, 60>>>>

CurveCyanDown == <<<<0, 0, 0, 0, 0>>, <<30, 0, 45, 30, 30>>, <<60, 60, 60, 60, 60>>>>

CurveNoHighlights == <<<<45, 45, 45, 45, 45>>, <<60, 60, 60, 60, 60>>>>

CurveTables == {CurveIdentity, CurveCyanUp, CurveCyanDown, CurveNoHighlights}

\* Expected DE response, rows of <<input, C, M, Y, K>> in ticks
DEFlat == <<<<0, 0, 0, 0, 0>>, <<57, 60, 60, 60, 60>>, <<60, 60, 60, 60, 60>>>>

DEMixed == <<<<0, 0, 0, 0, 0>>, <<57, 0, 60, 90, 30>>, <<60, 60, 60, 0, 60>>>>

DEOneSample == <<<<0, 0, 0, 0, 0>>, <<30, 30, 30, 30, 30>>, <<60, 60, 60, 60, 60>>>>

DETables == {DEFlat, DEMixed, DEOneSample}

FitOnes == [c \in Colors |-> RInt(1)]

Fits ==
    {FitOnes,
     [Cyan |-> Rat(1, 2), Magenta |-> RInt(1), Yellow |-> RInt(1), Black |-> RInt(2)],
     [Cyan |-> RInt(2), Magenta |-> RInt(2), Yellow |-> RInt(1), Black |-> RInt(1)],
     [Cyan |-> Rat(3, 2), Magenta |-> Rat(1, 2), Yellow |-> RInt(3), Black |-> Rat(1, 2)]}

Catalogue ==
    {MkFile(ct, DEFlat, FitOnes) : ct \in CurveTables \cup {<< >>}}
    \cup {MkFile(CurveIdentity, dt, FitOnes) : dt \in DETables \cup {<< >>}}
    \cup {MkFile(CurveCyanDown, dt, FitOnes) : dt \in {DEMixed, << >>}}
    \cup {MkFile(CurveIdentity, DEFlat, fit) : fit \in Fits}
    \cup {MkFile(CurveIdentity, << >>, fit) : fit \in Fits}
    \cup {MkFile(<< >>, << >>, FitOnes)}

----------------------------------------------------------------------------
(* process(cal_files) of calculate_gutenprint_cal.py *)

NoFile == [text |-> << >>, fit |-> FitOnes]

Idle ==
    /\ alpha = RInt(1) /\ lines = << >> /\ pst = ParseCalInit
    /\ dinp = << >> /\ dde = << >> /\ dres = RInt(1)

Init ==
    /\ prog = "process"
    /\ pc = "start"
    /\ nfiles \in 0..MaxFiles
    /\ idx = 0
    /\ params = DEFAULT_PARAMS
    /\ prev = DEFAULT_PARAMS
    /\ last = NoFile
    /\ hist = << >>
    /\ output = "none"
    /\ reported = DEFAULT_PARAMS
    /\ Idle

\* lines 202-209: the usage message and return, or the copy of the defaults
Start ==
    /\ prog = "process"
    /\ pc = "start"
    /\ IF nfiles = 0
       THEN /\ output' = "usage"
            /\ pc' = "done"
       ELSE /\ output' = output
            /\ pc' = "loop"
    /\ params' = DEFAULT_PARAMS
    /\ UNCHANGED <<prog, nfiles, idx, prev, last, hist, reported, alpha,
                   lines, pst, dinp, dde, dres>>

\* lines 211-254: one iteration of the loop, on the file read from disk
ProcessFile ==
    /\ prog = "process"
    /\ pc = "loop"
    /\ idx < nfiles
    /\ \E f \in Catalogue :
          LET r == ProcessBody(params, f)
          IN  /\ params' = r.params
              /\ pc' = IF r.raised THEN "raised" ELSE "loop"
              /\ hist' = IF r.raised THEN hist ELSE Append(hist, f.fit)
              /\ last' = f
    /\ prev' = params
    /\ idx' = idx + 1
    /\ UNCHANGED <<prog, nfiles, output, reported, alpha, lines, pst, dinp, dde, dres>>

\* lines 256-295: the table
Report ==
    /\ prog = "process"
    /\ pc = "loop"
    /\ idx = nfiles
    /\ output' = "table"
    /\ reported' = params
    /\ pc' = "done"
    /\ UNCHANGED <<prog, nfiles, idx, params, prev, last, hist, alpha,
                   lines, pst, dinp, dde, dres>>

Next == Start \/ ProcessFile \/ Report

Spec == Init /\ [][Next]_vars

----------------------------------------------------------------------------
(* cal2gutenprint_v0.py *)

CurvesName == "Argyll Device Calibration Curves"

DEName == "Argyll Output Calibration Expected DE Response"

\* line.split('"')[1] on a DESCRIPTOR line
DescriptorName(line) ==
    CASE line.kw = KwDescCurves -> CurvesName
      [] line.kw = KwDescDE -> DEName

\* d[k] = v on a dict
Put(d, k, v) == [x \in DOMAIN d \cup {k} |-> IF x = k THEN v ELSE d[x]]

\* np.array(data, dtype=float) raises ValueError on rows of unequal lengths
Rectangular(table) == \A r \in 1..Len(table) : Len(table[r]) = Len(table[1])

ParseBlocksInit ==
    [blocks |-> << >>, current |-> "None", data |-> << >>, raised |-> FALSE]

\* One iteration of the loop of lines 18-36
ParseBlocksLine(st, line) ==
    IF st.raised THEN st
    ELSE IF StartsWith(line, "DESCRIPTOR")
    THEN [st EXCEPT !.current = DescriptorName(line),
                    !.blocks = Put(@, DescriptorName(line), << >>),
                    !.data = << >>]
    ELSE IF line.kw = "BEGIN_DATA" THEN [st EXCEPT !.data = << >>]
    ELSE IF line.kw = "END_DATA"
    THEN IF Rectangular(st.data)
         THEN [st EXCEPT !.blocks = Put(@, st.current, st.data)]
         ELSE [st EXCEPT !.raised = TRUE]
    ELSE IF st.current # "None" /\ NonEmpty(line) /\ ~StartsWith(line, "#")
    THEN IF AllNumeric(line)
         THEN [st EXCEPT !.data = Append(@, Floats(line))]
         ELSE st                                  \* except ValueError: pass
    ELSE st

RECURSIVE ParseBlocksLines(_, _)
ParseBlocksLines(st, ls) ==
    IF ls = << >> THEN st
    ELSE ParseBlocksLines(ParseBlocksLine(st, Head(ls)), Tail(ls))

parse_cal_blocks(text) == ParseBlocksLines(ParseBlocksInit, text)

\* round(100 * log(k / Unit + EPS)) for k = 0 .. Unit ticks, EPS = 1e-6:
\* np.log(v + EPS) to two decimals, in hundredths
LogTable ==
    <<-1382, -409, -340, -300, -271, -248, -230, -215,
      -201, -190, -179, -170, -161, -153, -146, -139,
      -132, -126, -120, -115, -110, -105, -100, -96,
      -92, -88, -84, -80, -76, -73, -69, -66,
      -63, -60, -57, -54, -51, -48, -46, -43,
      -41, -38, -36, -33, -31, -29, -27, -24,
      -22, -20, -18, -16, -14, -12, -11, -9,
      -7, -5, -3, -2, 0>>

LogEps(ticks) == LogTable[ticks + 1]

RDiv(a, b) == IF IsNaN(a) \/ IsNaN(b) THEN NaN
              ELSE Rat(a[1] * b[2], a[2] * b[1])

\* sum of w[i] * a[i] * b[i]
RECURSIVE Dot3(_, _, _)
Dot3(w, a, b) ==
    IF w = << >> THEN RInt(0)
    ELSE RAdd(RMul(Head(w), RInt(Head(a) * Head(b))),
              Dot3(Tail(w), Tail(a), Tail(b)))

\* np.polyfit(x, y, 1, w=w)[0]: the slope minimising sum (w_i (y_i - p(x_i)))^2
PolyfitSlope(x, y, w) ==
    LET ones == [i \in 1..Len(x) |-> 1]
        W == [i \in 1..Len(x) |-> RMul(w[i], w[i])]
        S == Dot3(W, ones, ones)
        Sx == Dot3(W, x, ones)
        Sy == Dot3(W, y, ones)
        Sxx == Dot3(W, x, x)
        Sxy == Dot3(W, x, y)
    IN  RDiv(RSub(RMul(S, Sxy), RMul(Sx, Sy)), RSub(RMul(S, Sxx), RMul(Sx, Sx)))

\* A fitted slope is kept to two decimals, the resolution of LogTable
Hundredths(r) ==
    IF IsNaN(r) THEN NaN ELSE Rat((200 * r[1] + r[2]) \div (2 * r[2]), 100)

GammaLow == 3

GammaHigh == 57

NoWeights(I) == [i \in 1..Len(I) |-> RInt(1)]

\* estimate_gamma(I, O, weights); weights=None is NoWeights(I)
estimate_gamma(I, O, weights) ==
    LET mask == [i \in 1..Len(I) |-> I[i] > GammaLow /\ I[i] < GammaHigh]
        Im == Select(I, mask)
        Om == Select(O, mask)
        x == [i \in 1..Len(Im) |-> LogEps(Im[i])]
        y == [i \in 1..Len(Om) |-> LogEps(Om[i])]
    IN  Hundredths(PolyfitSlope(x, y, Select(weights, mask)))

\* np.clip(x, lo, hi)
Clip(x, lo, hi) == IF RLess(x, lo) THEN lo ELSE IF RLess(hi, x) THEN hi ELSE x

\* O / (I + EPS) for tick values: EPS = 1e-6 decides the quotient only when I
\* is 0; against I of one tick or more it changes the quotient by less than
\* one part in 10^4 and is dropped
OverEps(O, I) == IF I = 0 THEN Rat(O * 1000000, Unit) ELSE Rat(O, I)

\* np.clip(1.0 / max(O[-1], EPS), 0.8, 1.2)
estimate_density(O) ==
    Clip(IF O[Len(O)] = 0 THEN RInt(1000000) ELSE Rat(Unit, O[Len(O)]),
         Rat(8, 10), Rat(12, 10))

\* 2 * np.gradient(f): one-sided differences at the ends, central inside
Gradient2(f) ==
    [i \in 1..Len(f) |->
        IF i = 1 THEN 2 * (f[2] - f[1])
        ELSE IF i = Len(f) THEN 2 * (f[i] - f[i - 1])
        ELSE f[i + 1] - f[i - 1]]

\* np.argmax / np.argmin: the first position of the extreme value (1-based)
ArgMax(s) == CHOOSE i \in 1..Len(s) :
                /\ \A j \in 1..Len(s) : s[j] <= s[i]
                /\ \A j \in 1..(i - 1) : s[j] < s[i]

ArgMin(s) == CHOOSE i \in 1..Len(s) :
                /\ \A j \in 1..Len(s) : s[j] >= s[i]
                /\ \A j \in 1..(i - 1) : s[j] > s[i]

\* estimate_transition: I at the maximum of the second gradient (in ticks)
estimate_transition(I, O) == I[ArgMax(Gradient2(Gradient2(O)))]

\* np.mean of a sequence of floats: NaN for an empty one
RECURSIVE RSum(_)
RSum(s) == IF s = << >> THEN RInt(0) ELSE RAdd(Head(s), RSum(Tail(s)))

RMean(s) == RMul(RSum(s), Rat(1, Len(s)))

estimate_light_scale(I, O, T) ==
    LET mask == [i \in 1..Len(I) |-> I[i] > GammaLow /\ I[i] < T]
        Im == Select(I, mask)
        Om == Select(O, mask)
    IN  RMean([i \in 1..Len(Im) |-> OverEps(Om[i], Im[i])])

estimate_light_value(I, O, T) ==
    LET i == ArgMin([j \in 1..Len(I) |-> Abs(I[j] - T)])
    IN  OverEps(O[i], I[i])

smooth(p, new, a) == RAdd(RMul(a, new), RMul(RSub(RInt(1), a), p))

MAIN_PARAMS ==
    [LightCyanValue |-> RInt(1), LightCyanScale |-> RInt(1),
     LightCyanTrans |-> Rat(5, 10), CyanGamma |-> RInt(1), CyanDensity |-> RInt(1),
     LightMagentaValue |-> RInt(1), LightMagentaScale |-> RInt(1),
     LightMagentaTrans |-> Rat(5, 10), MagentaGamma |-> RInt(1),
     MagentaDensity |-> RInt(1),
     YellowGamma |-> RInt(1), YellowDensity |-> RInt(1),
     BlackGamma |-> RInt(1), BlackDensity |-> RInt(1),
     CompositeGamma |-> RInt(1)]

\* The reads of lines 112-148 raise: a block is missing (KeyError), curves
\* has no rows or fewer than five columns, fewer than two rows reach
\* np.gradient, de has no second column or not the length of curves
\* (IndexError, TypeError, ValueError), or no sample is left to np.polyfit
MainRaises(blocks) ==
    \/ CurvesName \notin DOMAIN blocks
    \/ DEName \notin DOMAIN blocks
    \/ LET curves == blocks[CurvesName]
           de == blocks[DEName]
       IN  \/ Len(curves) < 2
           \/ Len(curves[1]) < 5
           \/ Len(de) # Len(curves)
           \/ Len(de[1]) < 2
           \/ ~\E r \in 1..Len(curves) :
                   curves[r][1] > GammaLow /\ curves[r][1] < GammaHigh

\* np.mean(curves[:, 1:4], axis=1)
Gray(curves) ==
    [r \in 1..Len(curves) |-> (curves[r][2] + curves[r][3] + curves[r][4]) \div 3]

Ticks(t) == Rat(t, Unit)

\* What lines 115-153 estimate from the two blocks, by parameter
Estimates(blocks) ==
    LET curves == blocks[CurvesName]
        de == blocks[DEName]
        I == Column(curves, 0)
        de1 == Column(de, 1)
        weights == [i \in 1..Len(de1) |-> Rat(Unit, Unit + de1[i])]
        C == Column(curves, 1)
        M == Column(curves, 2)
        Y == Column(curves, 3)
        K == Column(curves, 4)
        TC == estimate_transition(I, C)
        TM == estimate_transition(I, M)
    IN  [LightCyanTrans |-> Ticks(TC),
         LightCyanScale |-> estimate_light_scale(I, C, TC),
         LightCyanValue |-> estimate_light_value(I, C, TC),
         CyanGamma |-> estimate_gamma(I, C, weights),
         CyanDensity |-> estimate_density(C),
         LightMagentaTrans |-> Ticks(TM),
         LightMagentaScale |-> estimate_light_scale(I, M, TM),
         LightMagentaValue |-> estimate_light_value(I, M, TM),
         MagentaGamma |-> estimate_gamma(I, M, weights),
         MagentaDensity |-> estimate_density(M),
         YellowGamma |-> estimate_gamma(I, Y, NoWeights(I)),
         YellowDensity |-> estimate_density(Y),
         BlackGamma |-> estimate_gamma(I, K, NoWeights(I)),
         BlackDensity |-> estimate_density(K),
         CompositeGamma |-> estimate_gamma(I, Gray(curves), NoWeights(I))]

\* The body of the loop of main for one file f, from params p
MainBody(p, f, a) ==
    LET st == parse_cal_blocks(f.text)
    IN  IF st.raised \/ MainRaises(st.blocks) THEN [raised |-> TRUE, params |-> p]
        ELSE LET est == Estimates(st.blocks)
             IN  [raised |-> FALSE,
                  params |-> [k \in DOMAIN p |-> smooth(p[k], est[k], a)]]

\* Calibration curves on the grid 0, 0.25, 0.5, 0.75, 1
GridIdentity ==
    <<<<0, 0, 0, 0, 0>>, <<15, 15, 15, 15, 15>>, <<30, 30, 30, 30, 30>>,
      <<45, 45, 45, 45, 45>>, <<60, 60, 60, 60, 60>>>>

GridKnee ==
    <<<<0, 0, 0, 0, 0>>, <<15, 6, 15, 3, 15>>, <<30, 12, 30, 15, 24>>,
      <<45, 36, 45, 33, 33>>, <<60, 60, 60, 60, 45>>>>

GridBowed ==
    <<<<0, 0, 0, 0, 0>>, <<15, 30, 6, 15, 15>>, <<30, 45, 9, 30, 30>>,
      <<45, 54, 30, 45, 45>>, <<60, 60, 48, 60, 60>>>>

GridDEZero ==
    <<<<0, 0, 0, 0, 0>>, <<15, 0, 0, 0, 0>>, <<30, 0, 0, 0, 0>>,
      <<45, 0, 0, 0, 0>>, <<60, 0, 0, 0, 0>>>>

GridDEVaried ==
    <<<<0, 0, 0, 0, 0>>, <<15, 60, 0, 0, 0>>, <<30, 0, 0, 0, 0>>,
      <<45, 60, 0, 0, 0>>, <<60, 0, 0, 0, 0>>>>

MainCatalogue ==
    {MkFile(ct, dt, FitOnes) : ct \in {GridIdentity, GridKnee, GridBowed},
                               dt \in {GridDEZero, GridDEVaried}}
    \cup {MkFile(GridIdentity, << >>, FitOnes), MkFile(<< >>, GridDEZero, FitOnes),
          MkFile(<< >>, << >>, FitOnes)}

Alphas == {Rat(4, 10), RInt(1)}

MainInit ==
    /\ prog = "main"
    /\ pc = "loop"
    /\ nfiles \in 0..MaxFiles
    /\ idx = 0
    /\ params = MAIN_PARAMS
    /\ prev = MAIN_PARAMS
    /\ last = NoFile
    /\ hist = << >>
    /\ output = "none"
    /\ reported = MAIN_PARAMS
    /\ alpha \in Alphas
    /\ lines = << >> /\ pst = ParseCalInit
    /\ dinp = << >> /\ dde = << >> /\ dres = RInt(1)

\* lines 109-155: one iteration of the loop
MainFile ==
    /\ prog = "main"
    /\ pc = "loop"
    /\ idx < nfiles
    /\ \E f \in MainCatalogue :
          LET r == MainBody(params, f, alpha)
          IN  /\ params' = r.params
              /\ pc' = IF r.raised THEN "raised" ELSE "loop"
              /\ last' = f
    /\ prev' = params
    /\ idx' = idx + 1
    /\ UNCHANGED <<prog, nfiles, hist, output, reported, alpha, lines, pst, dinp, dde, dres>>

\* lines 157-159: the table
MainReport ==
    /\ prog = "main"
    /\ pc = "loop"
    /\ idx = nfiles
    /\ output' = "table"
    /\ reported' = params
    /\ pc' = "done"
    /\ UNCHANGED <<prog, nfiles, idx, params, prev, last, hist, alpha,
                   lines, pst, dinp, dde, dres>>

MainNext == MainFile \/ MainReport

SpecMain == MainInit /\ [][MainNext]_vars

\* Either accumulator, run on its own
AccumInit == Init \/ MainInit

AccumNext == Start \/ ProcessFile \/ Report \/ MainFile \/ MainReport

SpecAccum == AccumInit /\ [][AccumNext]_vars

----------------------------------------------------------------------------
(* parse_cal_file of calculate_gutenprint_cal.py, line by line *)

Junk(digit) == [num |-> FALSE, d0 |-> digit, v |-> 0]

Blank == [kw |-> "", toks |-> << >>]

\* The lines a file may hold: the markers of the format, rows of numbers,
\* a row starting with a sign, a row with a token that is no number, a
\* blank line
LineAlphabet ==
    {Kw(KwDescCurves), Kw(KwDescDE), Kw("BEGIN_DATA"), Kw("END_DATA"),
     Kw("END_DATA_FORMAT"), Blank,
     Row(<<0, 0>>), Row(<<30, 45>>), Row(<<-30, 45>>),
     [kw |-> "", toks |-> <<Num(30), Junk(TRUE)>>]}

ParseInit ==
    /\ prog = "parse_cal_file"
    /\ pc = "parsing"
    /\ lines = << >>
    /\ pst = ParseCalInit
    /\ nfiles = 0 /\ idx = 0
    /\ params = DEFAULT_PARAMS /\ prev = DEFAULT_PARAMS /\ reported = DEFAULT_PARAMS
    /\ last = NoFile /\ hist = << >> /\ output = "none" /\ alpha = RInt(1)
    /\ dinp = << >> /\ dde = << >> /\ dres = RInt(1)

\* lines 72-96: the loop takes the next line of the file
ParseCalStep ==
    /\ prog = "parse_cal_file"
    /\ pc = "parsing"
    /\ ~pst.raised
    /\ Len(lines) < MaxLines
    /\ \E line \in LineAlphabet :
          /\ lines' = Append(lines, line)
          /\ pst' = ParseCalLine(pst, line)
    /\ UNCHANGED <<prog, pc, nfiles, idx, params, prev, last, hist, output, reported,
                   alpha, dinp, dde, dres>>

\* the end of the file is reached and the loop is left, or ValueError leaves it
ParseCalEnd ==
    /\ prog = "parse_cal_file"
    /\ pc = "parsing"
    /\ pc' = IF pst.raised THEN "raised" ELSE "parsed"
    /\ UNCHANGED <<prog, nfiles, idx, params, prev, last, hist, output, reported,
                   alpha, lines, pst, dinp, dde, dres>>

ParseNext == ParseCalStep \/ ParseCalEnd

SpecParse == ParseInit /\ [][ParseNext]_vars

----------------------------------------------------------------------------
(* analyze_density of calculate_gutenprint_cal.py on its own *)

InputLevels == {30, 55, 57, 60}

DELevels == {0, 30, 90}

\* input levels of a calibration curve: a rising grid
Monotone(s) == \A i \in 1..(Len(s) - 1) : s[i] < s[i + 1]

SeqsUpTo(S, n) == UNION {[1..k -> S] : k \in 0..n}

DensityInit ==
    /\ prog = "analyze_density"
    /\ pc = "call"
    /\ dinp \in {s \in SeqsUpTo(InputLevels, MaxSamples) : Monotone(s)}
    /\ dde \in {s \in SeqsUpTo(DELevels, MaxSamples) : Len(s) = Len(dinp)}
    /\ dres = RInt(1)
    /\ nfiles = 0 /\ idx = 0
    /\ params = DEFAULT_PARAMS /\ prev = DEFAULT_PARAMS /\ reported = DEFAULT_PARAMS
    /\ last = NoFile /\ hist = << >> /\ output = "none" /\ alpha = RInt(1)
    /\ lines = << >> /\ pst = ParseCalInit

AnalyzeDensity ==
    /\ prog = "analyze_density"
    /\ pc = "call"
    /\ dres' = analyze_density(dinp, dde)
    /\ pc' = "returned"
    /\ UNCHANGED <<prog, nfiles, idx, params, prev, last, hist, output, reported,
                   alpha, lines, pst, dinp, dde>>

DensityNext == AnalyzeDensity

SpecDensity == DensityInit /\ [][DensityNext]_vars

----------------------------------------------------------------------------
(* Properties *)

\* The file holds the descriptor line of the block
HasBlock(f, descriptor) == \E i \in 1..Len(f.text) : f.text[i].kw = descriptor

\* The loop has taken at least one file; last is that file, prev the
\* Parameter Set before it
Taken == idx > 0

\* C1: processing a file that has the calibration curves but lacks the
\* Expected DE Response block completes (no exception leaves the loop) and
\* leaves CyanDensity, MagentaDensity, YellowDensity and BlackDensity as they
\* were before that file.
C1_MissingDEKeepsDensity ==
    (Taken /\ HasBlock(last, KwDescCurves) /\ ~HasBlock(last, KwDescDE))
        => /\ pc # "raised"
           /\ \A c \in Colors : params[DensityKey(c)] = prev[DensityKey(c)]

\* C2: processing a file without the Device Calibration Curves block never
\* aborts the run, and leaves the parameters fed from that block (the four
\* gammas, CompositeGamma, the two light ink values) as they were.
C2_MissingCurvesNeverAborts ==
    (Taken /\ ~HasBlock(last, KwDescCurves))
        => /\ pc # "raised"
           /\ \A c \in Colors : params[GammaKey(c)] = prev[GammaKey(c)]
           /\ params.CompositeGamma = prev.CompositeGamma
           /\ \A c \in {"Cyan", "Magenta"} :
                 params[LightValueKey(c)] = prev[LightValueKey(c)]

\* C3: with an empty list of input files the run ends with the usage
\* message, no file taken, the Parameter Set untouched and no table printed;
\* with a non-empty list the usage message is never printed.
C3_EmptyListIsUsageError ==
    /\ nfiles = 0 => /\ output # "table"
                     /\ idx = 0
                     /\ pc = "done" => output = "usage"
    /\ nfiles > 0 => output # "usage"

\* ((1.0 * g1) * g2) * ... * gn over the gamma estimates of channel c
RECURSIVE LeftFoldProduct(_, _)
LeftFoldProduct(h, c) ==
    IF h = << >> THEN RInt(1)
    ELSE RMul(LeftFoldProduct(SubSeq(h, 1, Len(h) - 1), c), h[Len(h)][c])

\* The density factor the last file gives channel c: 1.0 when the file has
\* no Expected DE Response rows
LastDensityFactor(c) ==
    LET de_resp == parse_cal_file(last.text).de_resp
    IN  IF c \in DOMAIN de_resp
        THEN analyze_density(de_resp[c][1], de_resp[c][2])
        ELSE RInt(1)

\* C4: in process(), each per-channel gamma is the left-fold product of the
\* gamma estimates of the files taken so far, in their order; a file whose
\* estimate is 1.0 leaves the gamma as it was, a density factor of 1.0
\* leaves the density as it was; the table printed is the Parameter Set
\* after the last file.
C4_GammaIsLeftFoldProduct ==
    /\ \A c \in Colors : params[GammaKey(c)] = LeftFoldProduct(hist, c)
    /\ (Taken /\ pc # "raised") =>
          \A c \in Colors :
             /\ last.fit[c] = RInt(1) => params[GammaKey(c)] = prev[GammaKey(c)]
             /\ LastDensityFactor(c) = RInt(1)
                   => params[DensityKey(c)] = prev[DensityKey(c)]
    /\ output = "table" => /\ reported = params
                           /\ idx = nfiles
                           /\ Len(hist) = nfiles

\* Three files were folded, none of the cyan estimates being 1.0, and the
\* table was printed
C4_ThreeFilesFolded ==
    /\ output = "table"
    /\ Len(hist) = 3
    /\ \A i \in 1..3 : hist[i]["Cyan"] # RInt(1)
    /\ hist[1]["Cyan"] # hist[3]["Cyan"]
    /\ params.CyanGamma = Rat(3, 2)

Mean3(a, b, c) == Rat(a[1] * b[2] * c[2] + b[1] * a[2] * c[2] + c[1] * a[2] * b[2],
                      3 * a[2] * b[2] * c[2])

\* What main() estimates from the last file
LastEstimates == Estimates(parse_cal_blocks(last.text).blocks)

\* The gamma main() fits to the per-sample mean of the C, M and Y curves
LastGrayGamma ==
    LET curves == parse_cal_blocks(last.text).blocks[CurvesName]
    IN  estimate_gamma(Column(curves, 0), Gray(curves), NoWeights(Column(curves, 0)))

\* C5 as stated: in either accumulator, the estimate folded into
\* CompositeGamma is the mean of the Cyan, Magenta and Yellow gamma estimates
\* of the same file, folded by the accumulator's rule for the gammas.
C5_CompositeIsMeanOfGammas ==
    (Taken /\ pc # "raised") =>
        IF prog = "process"
        THEN params.CompositeGamma =
                RMul(prev.CompositeGamma,
                     Mean3(last.fit["Cyan"], last.fit["Magenta"], last.fit["Yellow"]))
        ELSE params.CompositeGamma =
                smooth(prev.CompositeGamma,
                       Mean3(LastEstimates.CyanGamma, LastEstimates.MagentaGamma,
                             LastEstimates.YellowGamma),
                       alpha)

\* C5 amended: process() folds the mean of the file's Cyan, Magenta and
\* Yellow gamma estimates into CompositeGamma by multiplication, as it folds
\* each channel's estimate into that channel's gamma; main() of
\* cal2gutenprint_v0.py folds, by smooth(), the gamma fitted without weights
\* to the per-sample mean of the three curves, as it folds each channel's
\* estimate into that channel's gamma.
C5_CompositeEstimatePerProgram ==
    (Taken /\ pc # "raised") =>
        IF prog = "process"
        THEN /\ params.CompositeGamma =
                   RMul(prev.CompositeGamma,
                        Mean3(last.fit["Cyan"], last.fit["Magenta"], last.fit["Yellow"]))
             /\ \A c \in Colors :
                   params[GammaKey(c)] = RMul(prev[GammaKey(c)], last.fit[c])
        ELSE /\ params.CompositeGamma =
                   smooth(prev.CompositeGamma, LastGrayGamma, alpha)
             /\ \A c \in Colors :
                   params[GammaKey(c)] =
                       smooth(prev[GammaKey(c)], LastEstimates[GammaKey(c)], alpha)

\* process() has folded a second file whose three chromatic estimates differ
C5_UnequalEstimatesFolded ==
    /\ prog = "process" /\ idx = 2 /\ pc = "loop"
    /\ last.fit["Cyan"] # last.fit["Magenta"]
    /\ last.fit["Magenta"] # last.fit["Yellow"]
    /\ prev.CompositeGamma # RInt(1)

\* The mean of output minus input over the samples of channel c of the last
\* file with input <= 0.6, as <<sum in ticks, count>>
LastHighlights(c) ==
    LET curve == parse_cal_file(last.text).curves[c]
        rows == {i \in 1..Len(curve[1]) : 10 * curve[1][i] <= 6 * Unit}
        RECURSIVE Total(_)
        Total(S) == IF S = {} THEN 0
                    ELSE LET i == CHOOSE i \in S : TRUE
                         IN  curve[2][i] - curve[1][i] + Total(S \ {i})
    IN  <<Total(rows), Cardinality(rows)>>

RECURSIVE Section(_)
Section(ls) ==
    IF ls = << >> THEN <<"outside", "None">>
    ELSE LET before == Section(SubSeq(ls, 1, Len(ls) - 1))
             l == ls[Len(ls)]
         IN  IF l.kw = KwDescCurves THEN <<"header", "CURVES">>
             ELSE IF l.kw = KwDescDE THEN <<"header", "DE">>
             ELSE IF l.kw = "BEGIN_DATA" /\ before[1] = "header"
                  THEN <<"data", before[2]>>
             ELSE IF l.kw = "END_DATA" THEN <<"outside", "None">>
             ELSE before

\* The table parse_cal_file keeps for a block
Table(st, block) == IF block = "CURVES" THEN st.data_curves ELSE st.data_de

\* A line all of whose tokens are numbers (and that has one)
IsDataRow(l) == l.kw = "" /\ l.toks # << >> /\ \A i \in 1..Len(l.toks) : l.toks[i].num

\* C6: parse_cal_file adds a row to a block's table only on reading a line
\* inside that block's data section (after its descriptor and BEGIN_DATA,
\* before the next END_DATA), and adds it at the end of the table.
C6_RowsOnlyInsideDataSection ==
    [][\A b \in {"CURVES", "DE"} :
          Table(pst', b) # Table(pst, b)
             => /\ Section(lines) = <<"data", b>>
                /\ Table(pst', b) = Append(Table(pst, b), Floats(lines'[Len(lines')]))
      ]_vars

\* C7: on reading a line inside a block's data section, parse_cal_file
\* raises nothing, appends the line's numbers to the block's table when all
\* its tokens are numbers, and leaves the table as it was otherwise.
C7_DataRowIffAllNumeric ==
    [][(lines' # lines /\ Section(lines)[1] = "data")
          => LET b == Section(lines)[2]
                 l == lines'[Len(lines')]
             IN  /\ ~pst'.raised
                 /\ Table(pst', b) = IF IsDataRow(l)
                                     THEN Append(Table(pst, b), Floats(l))
                                     ELSE Table(pst, b)
      ]_vars

\* C8: after each file main() takes, every parameter whose estimate from
\* the file equals its value before the file is unchanged, and with
\* alpha = 1 every parameter equals its estimate from the file.
C8_SmoothingFixedPointNoMemory ==
    (prog = "main" /\ Taken /\ pc # "raised") =>
        \A k \in DOMAIN params :
            /\ LastEstimates[k] = prev[k] => params[k] = prev[k]
            /\ alpha = RInt(1) => params[k] = LastEstimates[k]

\* C10: analyze_density returns 0.95 exactly when at least two samples have
\* input above 0.9 and the slope between the first and the last of them is
\* below 10 in absolute value, and 1.0 in every other case.
C10_ReductionIffFlatTop ==
    pc = "returned" =>
        LET top == {i \in 1..Len(dinp) : 10 * dinp[i] > 9 * Unit}
            first == CHOOSE i \in top : \A j \in top : i <= j
            final == CHOOSE i \in top : \A j \in top : j <= i
            dy == dde[final] - dde[first]
            dx == dinp[final] - dinp[first]
            flat == Cardinality(top) >= 2 /\ dx # 0 /\ Abs(dy) < 10 * Abs(dx)
        IN  dres = IF flat THEN Rat(95, 100) ELSE RInt(1)

\* The four light ink parameters process() reads or prints but never assigns
FrozenKeys ==
    {"LightCyanScale", "LightCyanTrans", "LightMagentaScale", "LightMagentaTrans"}

\* The fifteen keys of DEFAULT_PARAMS, spelled out
FifteenKeys ==
    {"CyanGamma", "CyanDensity", "LightCyanValue", "LightCyanScale",
     "LightCyanTrans", "MagentaGamma", "MagentaDensity", "LightMagentaValue",
     "LightMagentaScale", "LightMagentaTrans", "YellowGamma", "YellowDensity",
     "BlackGamma", "BlackDensity", "CompositeGamma"}

====
